---- MODULE Spec2Model ----
(***************************************************************************)
(* FocusMate room coordination engine: the Socket.io handlers of           *)
(* src/frontend/src/lib/types.ts (lines 143-509), with the durable Room    *)
(* record of src/backend/controllers/roomController.js (lines 174-231).    *)
(*                                                                         *)
(* Every handler is split at its awaits: the part before the await, the    *)
(* database operation itself, and the continuation are separate steps, so  *)
(* that handlers interleave exactly where Node lets them interleave.       *)
(***************************************************************************)
EXTENDS Integers, Sequences, FiniteSets, TLC

(***************************************************************************)
(* Bounds of the model.                                                    *)
(***************************************************************************)
NConns == 3
TimerNConns == 2
PresenceNConns == 2
MaxTasks == 2
MaxClock == 1
MaxSends == 2
MaxChatSends == 102
RelayNConns == 2
GateNConns == 2
MaxEvents == 2
MaxSteadyEvents == 3
MaxPending == 2
MaxLocalTicks == 1
ClientEpoch == 1000
ClockStep == 250
MaxClientClock == 1500
MaxCandidates == 1

(***************************************************************************)
(* Program constants.                                                      *)
(***************************************************************************)
HistoryCap == 100
WorkDuration == 1500
BreakDuration == 300
NullDate == -1
SyncThrottle == 500

Conns == 1..NConns
Users == {"u1", "u2"}
RoomIds == {"R1", "R2"}
UnknownRoom == "RX"
NoRoom == "null"
NoUser == "none"
TaskIds == 1..MaxTasks

\* Room.create({name, host, participants}): a durable record, host fixed at creation.
HostOf(r) == IF r = "R1" THEN "u1" ELSE "u2"

\* Schema defaults of timerState.
DefaultTimerState ==
    [isRunning |-> FALSE, timeRemaining |-> WorkDuration, isBreak |-> FALSE,
     startedAt |-> NullDate, workDuration |-> WorkDuration,
     breakDuration |-> BreakDuration]

\* Credentials a client may present in socket.handshake.auth.token.
Tokens == {"", "bad"} \cup {"tok-" \o u : u \in Users}

\* A verification that would accept every credential.
verifyTokenAny(token) == [ok |-> TRUE, id |-> "u1"]

\* jwt.verify: the decoded payload, or null for a token that does not verify.
verifyToken(token) ==
    IF \E u \in Users : token = "tok-" \o u
    THEN [ok |-> TRUE, id |-> CHOOSE u \in Users : token = "tok-" \o u]
    ELSE [ok |-> FALSE, id |-> NoUser]

VARIABLES
    connStatus,     \* per connection: "idle" | "open" | "closed" | "refused"
    userId,         \* socket.userId
    currentRoom,    \* socket.currentRoom
    sioRooms,       \* Socket.io adapter: the rooms each socket id is in
    roomUsers,      \* Map roomId -> Map socketId -> user, in insertion order
    roomMessages,   \* Map roomId -> array of messages
    db,             \* durable Room documents: roomId -> [host, timerState]
    tasks,          \* handlers suspended at an await
    now,            \* Date.now()
    nAppended,      \* number of messages pushed so far (tags each message object)
    joined,         \* history: connections that joined a room and have not left since
    inbox,          \* history: per connection, the chat messages delivered to it
    evs,            \* history: the timer events recorded as they were received
    net,            \* per connection: the events on their way to its listeners
    pomodoro,       \* per connection: the PomodoroTimer component of its page
    videoCall,      \* per connection: the VideoCall component of its page
    step,           \* the handler step taken last
    out             \* the events that step sent, in order

vars == <<connStatus, userId, currentRoom, sioRooms, roomUsers, roomMessages, db,
          tasks, now, nAppended, joined, inbox, evs, net, pomodoro, videoCall,
          step, out>>

(***************************************************************************)
(* Helpers.                                                                *)
(***************************************************************************)
\* The elements of a set of connection ids as a sequence, ascending.
RECURSIVE SetToSeq(_)
SetToSeq(S) ==
    IF S = {} THEN <<>>
    ELSE LET m == CHOOSE x \in S : \A y \in S : x <= y
         IN <<m>> \o SetToSeq(S \ {m})

RECURSIVE SeqRemove(_, _)
SeqRemove(s, c) ==
    IF s = <<>> THEN <<>>
    ELSE IF Head(s).socketId = c THEN SeqRemove(Tail(s), c)
    ELSE <<Head(s)>> \o SeqRemove(Tail(s), c)

NameOf(u) == "name-" \o u

UserRec(c) == [id |-> userId[c], username |-> NameOf(userId[c]), socketId |-> c]

\* A slip that would reply without registering the joiner.
MapKeep(m, c) == m

\* A slip that would delete the key and set it again: a present key moves last.
MapSetLast(m, c) == Append(SeqRemove(m, c), UserRec(c))

\* Map.set(socket.id, user) on the inner map: a present key keeps its position.
MapSet(m, c) ==
    IF \E i \in DOMAIN m : m[i].socketId = c
    THEN [i \in DOMAIN m |-> IF m[i].socketId = c THEN UserRec(c) ELSE m[i]]
    ELSE Append(m, UserRec(c))

\* Sockets a broadcast to Socket.io room r reaches: the adapter's members that
\* are still connected (sio: the adapter's rooms, status: the connections).
Members(sio, status, r) == {c \in Conns : r \in sio[c] /\ status[c] = "open"}

\* One emit call, delivered to each member once, in ascending socket order.
Bcast(members, ev, payload) ==
    LET s == SetToSeq(members)
    IN [i \in DOMAIN s |-> [to |-> s[i], ev |-> ev, payload |-> payload]]

\* io.to(roomId).emit(ev, payload)
EmitRoom(r, ev, payload) == Bcast(Members(sioRooms, connStatus, r), ev, payload)

\* socket.to(roomId).emit(ev, payload): the room without the sender
EmitOthers(c, r, ev, payload) ==
    Bcast(Members(sioRooms, connStatus, r) \ {c}, ev, payload)

\* socket.emit(ev, payload)
EmitSelf(c, ev, payload) == <<[to |-> c, ev |-> ev, payload |-> payload]>>

\* The events the components of a page listen to once they are mounted.
VideoEvents == {"video-user-ready", "video-offer", "video-answer",
                "video-ice-candidate", "video-user-left"}

Listens(c, ev) ==
    \/ ev = "timer-sync" /\ pomodoro[c].mounted
    \/ ev \in VideoEvents /\ videoCall[c].mounted

\* The transport: each event of an emit whose recipient listens to it joins the
\* recipient's queue, in the order of sending.
RECURSIVE Delivered(_, _)
Delivered(q, o) ==
    IF o = <<>> THEN q
    ELSE Delivered(IF Listens(Head(o).to, Head(o).ev)
                   THEN [q EXCEPT ![Head(o).to] =
                           Append(@, [ev |-> Head(o).ev, payload |-> Head(o).payload])]
                   ELSE q,
                   Tail(o))

\* The components before the page renders them.
NoPomodoro ==
    [mounted |-> FALSE, timerState |-> DefaultTimerState, lastSyncRef |-> 0,
     clock |-> ClientEpoch, ticks |-> 0]
NoVideoCall ==
    [mounted |-> FALSE, isInCall |-> FALSE, peers |-> {}, peersRef |-> {},
     pending |-> {}, candidates |-> 0]

\* A lookup that would answer with a document whatever the id.
AnySnap == [found |-> TRUE, host |-> NoUser, timerState |-> DefaultTimerState]

\* What Room.findOne leaves the handler with when it has no document: null.
NoSnap == [found |-> FALSE, host |-> NoUser, timerState |-> DefaultTimerState]
NoData == [timeRemaining |-> 0, isRunning |-> FALSE, isBreak |-> FALSE]
Idle ==
    [kind |-> "idle", conn |-> 0, room |-> NoRoom, stage |-> "none",
     action |-> "none", data |-> NoData, snap |-> NoSnap, upd |-> <<>>,
     newState |-> DefaultTimerState, ok |-> TRUE]

FreeTask == CHOOSE t \in TaskIds : tasks[t].kind = "idle" /\
                \A u \in TaskIds : tasks[u].kind = "idle" => t <= u
HasFreeTask == \E t \in TaskIds : tasks[t].kind = "idle"

\* The record of a step: the handler, its socket, the room it works on, and for a
\* step of a suspended handler its task. The last field is the step's input: the
\* command of a timer command, the credential of a connect, the target of a
\* signaling message.
Step(op, c, r) == [op |-> op, conn |-> c, room |-> r, task |-> 0, action |-> "none"]
TaskStep(op, t) ==
    [op |-> op, conn |-> tasks[t].conn, room |-> tasks[t].room, task |-> t,
     action |-> tasks[t].action]

Init ==
    /\ connStatus = [c \in Conns |-> "idle"]
    /\ userId = [c \in Conns |-> NoUser]
    /\ currentRoom = [c \in Conns |-> NoRoom]
    /\ sioRooms = [c \in Conns |-> {}]
    /\ roomUsers = <<>>
    /\ roomMessages = <<>>
    /\ db = [r \in RoomIds |-> [host |-> HostOf(r), timerState |-> DefaultTimerState]]
    /\ tasks = [t \in TaskIds |-> Idle]
    /\ now = 0
    /\ nAppended = 0
    /\ joined = [r \in RoomIds |-> {}]
    /\ inbox = [c \in Conns |-> <<>>]
    /\ evs = <<>>
    /\ net = [c \in Conns |-> <<>>]
    /\ pomodoro = [c \in Conns |-> NoPomodoro]
    /\ videoCall = [c \in Conns |-> NoVideoCall]
    /\ step = Step("init", 0, NoRoom)
    /\ out = <<>>

(***************************************************************************)
(* Connection gate: io.use(...)                                            *)
(***************************************************************************)
Connect(c, token) ==
    /\ connStatus[c] = "idle"
    /\ LET decoded == verifyToken(token)
       IN IF token = "" \/ ~decoded.ok
          THEN /\ connStatus' = [connStatus EXCEPT ![c] = "refused"]
               /\ UNCHANGED userId
          ELSE /\ connStatus' = [connStatus EXCEPT ![c] = "open"]
               /\ userId' = [userId EXCEPT ![c] = decoded.id]
    /\ step' = [Step("connect", c, NoRoom) EXCEPT !.action = token]
    /\ out' = <<>>
    /\ UNCHANGED <<currentRoom, sioRooms, roomUsers, roomMessages, db, tasks, now,
                   nAppended, joined, inbox, evs, net, pomodoro, videoCall>>

(***************************************************************************)
(* The database: Room.findOne and Room.findOneAndUpdate, each atomic, each *)
(* able to reject.                                                         *)
(***************************************************************************)
DbFindOne(t, ok) ==
    /\ tasks[t].kind # "idle"
    /\ tasks[t].stage = "find"
    /\ tasks' = [tasks EXCEPT ![t].stage = "found", ![t].ok = ok,
                   ![t].snap = IF ok /\ tasks[t].room \in DOMAIN db
                               THEN [found |-> TRUE, host |-> db[tasks[t].room].host,
                                     timerState |-> db[tasks[t].room].timerState]
                               ELSE NoSnap]
    /\ step' = TaskStep("db-find", t)
    /\ out' = <<>>
    /\ UNCHANGED <<connStatus, userId, currentRoom, sioRooms, roomUsers, roomMessages,
                   db, now, nAppended, joined, inbox, evs, net, pomodoro, videoCall>>

(***************************************************************************)
(* join-room                                                               *)
(***************************************************************************)
JoinRoomStart(c, roomId) ==
    /\ connStatus[c] = "open"
    /\ HasFreeTask
    /\ tasks' = [tasks EXCEPT ![FreeTask] =
                   [Idle EXCEPT !.kind = "join", !.conn = c, !.room = roomId,
                                !.stage = "find"]]
    /\ step' = Step("join-start", c, roomId)
    /\ out' = <<>>
    /\ UNCHANGED <<connStatus, userId, currentRoom, sioRooms, roomUsers, roomMessages,
                   db, now, nAppended, joined, inbox, evs, net, pomodoro, videoCall>>

JoinRoomResume(t) ==
    LET c == tasks[t].conn
        roomId == tasks[t].room
        room == tasks[t].snap
    IN
    /\ tasks[t].kind = "join"
    /\ tasks[t].stage = "found"
    /\ tasks' = [tasks EXCEPT ![t] = Idle]
    /\ IF ~tasks[t].ok
       THEN \* catch (error)
            /\ out' = EmitSelf(c, "error", [message |-> "Failed to join room"])
            /\ step' = TaskStep("join-failed", t)
            /\ UNCHANGED <<currentRoom, sioRooms, roomUsers, roomMessages, joined>>
       ELSE IF ~room.found
       THEN /\ out' = EmitSelf(c, "error", [message |-> "Room not found"])
            /\ step' = TaskStep("join-notfound", t)
            /\ UNCHANGED <<currentRoom, sioRooms, roomUsers, roomMessages, joined>>
       ELSE LET users == MapSet(IF roomId \in DOMAIN roomUsers
                                THEN roomUsers[roomId] ELSE <<>>, c)
                msgs == IF roomId \in DOMAIN roomMessages
                        THEN roomMessages[roomId] ELSE <<>>
                sio == [sioRooms EXCEPT ![c] = @ \cup {roomId}]
                members == Members(sio, connStatus, roomId)
            IN /\ sioRooms' = sio
               /\ currentRoom' = [currentRoom EXCEPT ![c] = roomId]
               /\ roomUsers' = [r \in DOMAIN roomUsers \cup {roomId} |->
                                  IF r = roomId THEN users ELSE roomUsers[r]]
               /\ roomMessages' = [r \in DOMAIN roomMessages \cup {roomId} |->
                                     IF r = roomId THEN msgs ELSE roomMessages[r]]
               /\ out' = EmitSelf(c, "room-state",
                                  [timerState |-> room.timerState, messages |-> msgs,
                                   users |-> users, hostId |-> room.host])
                         \o Bcast(members \ {c}, "user-joined", UserRec(c))
                         \o Bcast(members, "users-update", users)
               /\ joined' = [joined EXCEPT ![roomId] = @ \cup {c}]
               /\ step' = TaskStep("join", t)
    /\ UNCHANGED <<connStatus, userId, db, now, nAppended, inbox, evs, net, pomodoro, videoCall>>

(***************************************************************************)
(* handleLeaveRoom, as run by leave-room (left = the socket's adapter      *)
(* rooms) and by disconnect (the adapter has already dropped the socket).  *)
(***************************************************************************)
\* A slip that would leave the history of an emptied room in place.
KeepHistory(messages, roomId) == messages

\* roomMessages.delete(roomId)
DropHistory(messages, roomId) ==
    [r \in DOMAIN messages \ {roomId} |-> messages[r]]

\* A slip that would leave out the last of the three notices.
LeaveNoticeNoVideo(members, c, rest) ==
    Bcast(members, "user-left", UserRec(c)) \o Bcast(members, "users-update", rest)

\* The three notices to the sockets remaining in the room.
LeaveNotice(members, c, rest) ==
    Bcast(members, "user-left", UserRec(c))
    \o Bcast(members, "users-update", rest)
    \o Bcast(members, "video-user-left", [socketId |-> c])

handleLeaveRoom(c, sio, status) ==
    LET roomId == currentRoom[c]
        members == Members(sio, status, roomId)
    IN IF roomId = NoRoom
       THEN /\ out' = <<>>
            /\ sioRooms' = sio
            /\ UNCHANGED <<currentRoom, roomUsers, roomMessages>>
       ELSE /\ IF roomId \in DOMAIN roomUsers
               THEN LET rest == SeqRemove(roomUsers[roomId], c)
                    IN IF Len(rest) = 0
                       THEN /\ roomUsers' = [r \in DOMAIN roomUsers \ {roomId} |->
                                               roomUsers[r]]
                            /\ roomMessages' = DropHistory(roomMessages, roomId)
                            /\ out' = <<>>
                       ELSE /\ roomUsers' = [roomUsers EXCEPT ![roomId] = rest]
                            /\ UNCHANGED roomMessages
                            /\ out' = LeaveNotice(members, c, rest)
               ELSE /\ out' = <<>>
                    /\ UNCHANGED <<roomUsers, roomMessages>>
            /\ sioRooms' = [sio EXCEPT ![c] = @ \ {roomId}]
            /\ currentRoom' = [currentRoom EXCEPT ![c] = NoRoom]

LeaveRoom(c) ==
    /\ connStatus[c] = "open"
    /\ handleLeaveRoom(c, sioRooms, connStatus)
    /\ joined' = [r \in RoomIds |-> joined[r] \ {c}]
    /\ step' = Step("leave-room", c, currentRoom[c])
    /\ UNCHANGED <<connStatus, userId, db, tasks, now, nAppended, inbox, evs, pomodoro, videoCall>>
    /\ net' = Delivered(net, out')

Disconnect(c) ==
    /\ connStatus[c] = "open"
    /\ connStatus' = [connStatus EXCEPT ![c] = "closed"]
    /\ handleLeaveRoom(c, [sioRooms EXCEPT ![c] = {}],
                       [connStatus EXCEPT ![c] = "closed"])
    /\ joined' = [r \in RoomIds |-> joined[r] \ {c}]
    /\ step' = Step("disconnect", c, currentRoom[c])
    /\ UNCHANGED <<userId, db, tasks, now, nAppended, inbox, evs, pomodoro, videoCall>>
    /\ net' = Delivered(net, out')

(***************************************************************************)
(* send-message                                                            *)
(***************************************************************************)
\* String.prototype.trim on a string given as its sequence of characters.
RECURSIVE TrimLeft(_)
TrimLeft(s) == IF s # <<>> /\ Head(s) = " " THEN TrimLeft(Tail(s)) ELSE s
RECURSIVE TrimRight(_)
TrimRight(s) ==
    IF s # <<>> /\ s[Len(s)] = " " THEN TrimRight(SubSeq(s, 1, Len(s) - 1)) ELSE s
Trim(s) == TrimRight(TrimLeft(s))

\* A slip that would evict at the wrong end: pop() in place of shift().
PushCappedPop(messages, message) ==
    LET pushed == Append(messages, message)
    IN IF Len(pushed) > HistoryCap THEN SubSeq(pushed, 1, HistoryCap) ELSE pushed

\* A slip that would put the new message first: unshift() in place of push().
PushFront(messages, message) ==
    LET pushed == <<message>> \o messages
    IN IF Len(pushed) > HistoryCap THEN Tail(pushed) ELSE pushed

\* messages.push(message); if (messages.length > 100) messages.shift();
PushCapped(messages, message) ==
    LET pushed == Append(messages, message)
    IN IF Len(pushed) > HistoryCap THEN Tail(pushed) ELSE pushed

\* A slip that would relay with socket.to(roomId), leaving the sender out.
RelayOthers(c, roomId, message) == EmitOthers(c, roomId, "receive-message", message)

\* io.to(roomId).emit('receive-message', message)
Relay(c, roomId, message) == EmitRoom(roomId, "receive-message", message)

\* What the connections have been given of the chat: each receive-message of an
\* emit is appended to its recipient's stream, which keeps the order of sending.
RECURSIVE Received(_, _)
Received(box, o) ==
    IF o = <<>> THEN box
    ELSE Received(IF Head(o).ev = "receive-message"
                  THEN [box EXCEPT ![Head(o).to] = Append(@, Head(o).payload.seq)]
                  ELSE box,
                  Tail(o))

NewMessage(c, content) ==
    [id |-> ToString(now), userId |-> userId[c], username |-> NameOf(userId[c]),
     content |-> Trim(content), timestamp |-> now, seq |-> nAppended + 1]

SendMessage(c, content) ==
    LET roomId == currentRoom[c]
        message == NewMessage(c, content)
    IN
    /\ connStatus[c] = "open"
    /\ step' = Step("send-message", c, roomId)
    /\ IF roomId = NoRoom \/ content = <<>>
       THEN /\ out' = <<>>
            /\ UNCHANGED <<roomMessages, nAppended, inbox>>
       ELSE /\ roomMessages' =
                  IF roomId \in DOMAIN roomMessages
                  THEN [roomMessages EXCEPT
                          ![roomId] = PushCapped(roomMessages[roomId], message)]
                  ELSE roomMessages
            /\ nAppended' = nAppended + 1
            /\ out' = Relay(c, roomId, message)
            /\ inbox' = Received(inbox, out')
    /\ UNCHANGED <<connStatus, userId, currentRoom, sioRooms, roomUsers, db, tasks,
                   now, joined, evs, net, pomodoro, videoCall>>

(***************************************************************************)
(* timer-start, timer-pause, timer-reset, timer-switch-mode:               *)
(* handleTimerAction                                                       *)
(***************************************************************************)
TimerActions == {"start", "pause", "reset", "switch"}

\* A slip that would take the other phase's duration.
PhaseDurationSwapped(ts, isBreak) ==
    IF isBreak THEN ts.workDuration ELSE ts.breakDuration

PhaseDuration(ts, isBreak) == IF isBreak THEN ts.breakDuration ELSE ts.workDuration

\* A slip that would have pause write back the timeRemaining the handler read.
UpdateDataPauseAll(action, ts, date) ==
    CASE action = "start" -> [isRunning |-> TRUE, startedAt |-> date]
      [] action = "pause" -> [isRunning |-> FALSE, timeRemaining |-> ts.timeRemaining]
      [] action = "reset" ->
            [isRunning |-> FALSE, timeRemaining |-> PhaseDuration(ts, ts.isBreak),
             startedAt |-> NullDate]
      [] action = "switch" ->
            [isBreak |-> ~ts.isBreak, isRunning |-> FALSE,
             timeRemaining |-> PhaseDuration(ts, ~ts.isBreak), startedAt |-> NullDate]

\* updateData of the switch statement, from the timer state the handler read.
UpdateData(action, ts, date) ==
    CASE action = "start" -> [isRunning |-> TRUE, startedAt |-> date]
      [] action = "pause" -> [isRunning |-> FALSE]
      [] action = "reset" ->
            [isRunning |-> FALSE, timeRemaining |-> PhaseDuration(ts, ts.isBreak),
             startedAt |-> NullDate]
      [] action = "switch" ->
            [isBreak |-> ~ts.isBreak, isRunning |-> FALSE,
             timeRemaining |-> PhaseDuration(ts, ~ts.isBreak), startedAt |-> NullDate]

\* A partial update applied to a timer state: the named fields are overwritten.
ApplyUpdate(ts, upd) ==
    [f \in DOMAIN ts |-> IF f \in DOMAIN upd THEN upd[f] ELSE ts[f]]

\* newState of the switch statement: the state read, with the same assignments.
NewState(action, ts, date) == ApplyUpdate(ts, UpdateData(action, ts, date))

\* A handler without the host check.
AnyoneIsHost(room, c) == TRUE

\* room.host.toString() !== socket.userId
IsHost(room, c) == room.host = userId[c]

TimerActionBegin(c, action) ==
    LET roomId == currentRoom[c]
    IN
    /\ connStatus[c] = "open"
    /\ out' = <<>>
    /\ step' = [Step("timer-start", c, roomId) EXCEPT !.action = action]
    /\ IF roomId = NoRoom
       THEN UNCHANGED tasks
       ELSE /\ HasFreeTask
            /\ tasks' = [tasks EXCEPT ![FreeTask] =
                           [Idle EXCEPT !.kind = "timer", !.conn = c, !.room = roomId,
                                        !.stage = "find", !.action = action]]
    /\ UNCHANGED <<connStatus, userId, currentRoom, sioRooms, roomUsers, roomMessages,
                   db, now, nAppended, joined, inbox, net, pomodoro, videoCall>>

TimerActionStart(c, action) == TimerActionBegin(c, action) /\ UNCHANGED evs

\* The same handler, the event noted in the record of events received.
TimerActionRecorded(c, action) ==
    /\ TimerActionBegin(c, action)
    /\ evs' = Append(evs, [kind |-> "timer", action |-> action, data |-> NoData])

TimerActionResume(t) ==
    LET c == tasks[t].conn
        room == tasks[t].snap
        action == tasks[t].action
    IN
    /\ tasks[t].kind = "timer"
    /\ tasks[t].stage = "found"
    /\ IF ~tasks[t].ok
       THEN \* catch (error)
            /\ out' = EmitSelf(c, "error", [message |-> "Failed to update timer"])
            /\ step' = TaskStep("timer-failed", t)
            /\ tasks' = [tasks EXCEPT ![t] = Idle]
       ELSE IF ~room.found
       THEN /\ out' = <<>>
            /\ step' = TaskStep("timer-noroom", t)
            /\ tasks' = [tasks EXCEPT ![t] = Idle]
       ELSE IF ~IsHost(room, c)
       THEN /\ out' = EmitSelf(c, "error",
                               [message |-> "Only the host can control the timer"])
            /\ step' = TaskStep("timer-denied", t)
            /\ tasks' = [tasks EXCEPT ![t] = Idle]
       ELSE /\ out' = <<>>
            /\ step' = TaskStep("timer-compute", t)
            /\ tasks' = [tasks EXCEPT
                           ![t].stage = "update",
                           ![t].upd = UpdateData(action, room.timerState, now),
                           ![t].newState = NewState(action, room.timerState, now)]
    /\ UNCHANGED <<connStatus, userId, currentRoom, sioRooms, roomUsers, roomMessages,
                   db, now, nAppended, joined, inbox, evs, net, pomodoro, videoCall>>

\* Room.findOneAndUpdate({roomId}, update)
DbUpdate(t, ok) ==
    LET roomId == tasks[t].room
    IN
    /\ tasks[t].kind # "idle"
    /\ tasks[t].stage = "update"
    /\ tasks' = [tasks EXCEPT ![t].stage = "updated", ![t].ok = ok]
    /\ db' = IF ok /\ roomId \in DOMAIN db
             THEN [db EXCEPT ![roomId].timerState = ApplyUpdate(@, tasks[t].upd)]
             ELSE db
    /\ step' = [TaskStep("db-update", t) EXCEPT !.op =
                  IF ok THEN "db-update" ELSE "db-update-failed"]
    /\ out' = <<>>
    /\ UNCHANGED <<connStatus, userId, currentRoom, sioRooms, roomUsers, roomMessages,
                   now, nAppended, joined, inbox, evs, net, pomodoro, videoCall>>

\* A slip that would use socket.to(roomId) here as timer-tick does.
TimerSyncOthers(c, roomId, newState) == EmitOthers(c, roomId, "timer-sync", newState)

\* io.to(roomId).emit('timer-sync', newState)
TimerSync(c, roomId, newState) == EmitRoom(roomId, "timer-sync", newState)

TimerActionEmit(t) ==
    LET c == tasks[t].conn
        roomId == tasks[t].room
    IN
    /\ tasks[t].kind = "timer"
    /\ tasks[t].stage = "updated"
    /\ tasks' = [tasks EXCEPT ![t] = Idle]
    /\ IF tasks[t].ok
       THEN /\ out' = TimerSync(c, roomId, tasks[t].newState)
            /\ step' = TaskStep("timer-sync", t)
       ELSE \* catch (error)
            /\ out' = EmitSelf(c, "error", [message |-> "Failed to update timer"])
            /\ step' = TaskStep("timer-failed", t)
    /\ UNCHANGED <<connStatus, userId, currentRoom, sioRooms, roomUsers, roomMessages,
                   db, now, nAppended, joined, inbox, evs, pomodoro, videoCall>>
    /\ net' = Delivered(net, out')

(***************************************************************************)
(* timer-tick                                                              *)
(***************************************************************************)
TimerTickBegin(c, data) ==
    LET roomId == currentRoom[c]
    IN
    /\ connStatus[c] = "open"
    /\ out' = <<>>
    /\ step' = Step("tick-start", c, roomId)
    /\ IF roomId = NoRoom
       THEN UNCHANGED tasks
       ELSE /\ HasFreeTask
            /\ tasks' = [tasks EXCEPT ![FreeTask] =
                           [Idle EXCEPT !.kind = "tick", !.conn = c, !.room = roomId,
                                        !.stage = "update", !.data = data,
                                        !.upd = [timeRemaining |-> data.timeRemaining,
                                                 isRunning |-> data.isRunning]]]
    /\ UNCHANGED <<connStatus, userId, currentRoom, sioRooms, roomUsers, roomMessages,
                   db, now, nAppended, joined, inbox, net, pomodoro, videoCall>>

TimerTickStart(c, data) == TimerTickBegin(c, data) /\ UNCHANGED evs

TimerTickRecorded(c, data) ==
    /\ TimerTickBegin(c, data)
    /\ evs' = Append(evs, [kind |-> "tick", action |-> "none", data |-> data])

TimerTickEmit(t) ==
    LET c == tasks[t].conn
        roomId == tasks[t].room
    IN
    /\ tasks[t].kind = "tick"
    /\ tasks[t].stage = "updated"
    /\ tasks' = [tasks EXCEPT ![t] = Idle]
    /\ IF tasks[t].ok
       THEN /\ out' = EmitOthers(c, roomId, "timer-sync", tasks[t].data)
            /\ step' = TaskStep("tick-sync", t)
       ELSE \* the rejection is not caught: the handler ends at the await
            /\ out' = <<>>
            /\ step' = TaskStep("tick-rejected", t)
    /\ UNCHANGED <<connStatus, userId, currentRoom, sioRooms, roomUsers, roomMessages,
                   db, now, nAppended, joined, inbox, evs, pomodoro, videoCall>>
    /\ net' = Delivered(net, out')

(***************************************************************************)
(* WebRTC signaling: video-ready, video-offer, video-answer,               *)
(* video-ice-candidate, video-leave                                        *)
(***************************************************************************)
\* The name a signaling message gives to target the socket c (payloads and the
\* presence entries carry c itself): Socket.io keeps every socket in a room named
\* by its own id, next to the rooms it joined.
SocketId(c) == "s" \o ToString(c)
SignalKinds == {"video-offer", "video-answer", "video-ice-candidate"}

\* The sockets io.to(name) reaches.
ToMembers(name) ==
    IF name \in RoomIds
    THEN Members(sioRooms, connStatus, name)
    ELSE {d \in Conns : SocketId(d) = name /\ connStatus[d] = "open"}

SignalPayload(c, kind, payload) ==
    IF kind = "video-offer"
    THEN [fromSocketId |-> c, username |-> NameOf(userId[c]),
          offer |-> payload]
    ELSE IF kind = "video-answer"
    THEN [fromSocketId |-> c, answer |-> payload]
    ELSE [fromSocketId |-> c, candidate |-> payload]

\* A slip that would forward to the sender's room in place of the target.
ForwardToRoom(c, kind, targetSocketId, payload) ==
    EmitOthers(c, currentRoom[c], kind, SignalPayload(c, kind, payload))

\* io.to(targetSocketId).emit(kind, {fromSocketId: socket.id, ...})
Forward(c, kind, targetSocketId, payload) ==
    Bcast(ToMembers(targetSocketId), kind, SignalPayload(c, kind, payload))

VideoSignalBegin(c, kind, targetSocketId, payload) ==
    /\ connStatus[c] = "open"
    /\ out' = Forward(c, kind, targetSocketId, payload)
    /\ step' = [Step(kind, c, currentRoom[c]) EXCEPT !.action = targetSocketId]
    /\ UNCHANGED <<connStatus, userId, currentRoom, sioRooms, roomUsers, roomMessages,
                   db, tasks, now, nAppended, joined, inbox, evs, pomodoro>>
    /\ net' = Delivered(net, out')

VideoReadyBegin(c) ==
    LET roomId == currentRoom[c]
    IN
    /\ connStatus[c] = "open"
    /\ out' = IF roomId = NoRoom THEN <<>>
              ELSE EmitOthers(c, roomId, "video-user-ready",
                              [socketId |-> c,
                               username |-> NameOf(userId[c])])
    /\ step' = Step("video-ready", c, roomId)
    /\ UNCHANGED <<connStatus, userId, currentRoom, sioRooms, roomUsers, roomMessages,
                   db, tasks, now, nAppended, joined, inbox, evs, pomodoro>>
    /\ net' = Delivered(net, out')

VideoSignal(c, kind, targetSocketId, payload) ==
    VideoSignalBegin(c, kind, targetSocketId, payload) /\ UNCHANGED videoCall

VideoReady(c) == VideoReadyBegin(c) /\ UNCHANGED videoCall

VideoLeave(c) ==
    LET roomId == currentRoom[c]
    IN
    /\ connStatus[c] = "open"
    /\ out' = IF roomId = NoRoom THEN <<>>
              ELSE EmitOthers(c, roomId, "video-user-left",
                              [socketId |-> c])
    /\ step' = Step("video-leave", c, roomId)
    /\ UNCHANGED <<connStatus, userId, currentRoom, sioRooms, roomUsers, roomMessages,
                   db, tasks, now, nAppended, joined, inbox, evs, pomodoro, videoCall>>
    /\ net' = Delivered(net, out')

(***************************************************************************)
(* The clock.                                                              *)
(***************************************************************************)
AdvanceClock ==
    /\ now < MaxClock
    /\ now' = now + 1
    /\ step' = Step("clock", 0, NoRoom)
    /\ out' = <<>>
    /\ UNCHANGED <<connStatus, userId, currentRoom, sioRooms, roomUsers, roomMessages,
                   db, tasks, nAppended, joined, inbox, evs, net, pomodoro, videoCall>>

(***************************************************************************)
(* The page of a connection: the PomodoroTimer component.                  *)
(***************************************************************************)
serverVars == <<connStatus, userId, currentRoom, sioRooms, roomUsers, roomMessages,
                db, tasks, now, nAppended, joined, inbox, evs>>

\* The page renders the component once room-state has arrived, with the
\* timer state of that snapshot as initialState; its effect registers the
\* timer-sync listener.
PomodoroMount(c) ==
    /\ connStatus[c] = "open"
    /\ ~pomodoro[c].mounted
    /\ step.op = "join" /\ step.conn = c
    /\ pomodoro' = [pomodoro EXCEPT ![c].mounted = TRUE,
                                   ![c].timerState = out[1].payload.timerState]
    /\ step' = Step("pomodoro-mount", c, currentRoom[c])
    /\ out' = <<>>
    /\ UNCHANGED <<serverVars, net, videoCall>>

\* if (now - lastSyncRef.current < 500) return;
Throttled(clock, lastSync) == clock - lastSync < SyncThrottle

\* const handleTimerSync = (data) => { ... }
handleTimerSync(c) ==
    /\ pomodoro[c].mounted
    /\ net[c] # <<>>
    /\ Head(net[c]).ev = "timer-sync"
    /\ net' = [net EXCEPT ![c] = Tail(@)]
    /\ IF Throttled(pomodoro[c].clock, pomodoro[c].lastSyncRef)
       THEN /\ UNCHANGED pomodoro
            /\ step' = Step("sync-skipped", c, currentRoom[c])
       ELSE /\ pomodoro' = [pomodoro EXCEPT
                              ![c].lastSyncRef = pomodoro[c].clock,
                              ![c].timerState = ApplyUpdate(@, Head(net[c]).payload)]
            /\ step' = Step("sync-applied", c, currentRoom[c])
    /\ out' = <<>>
    /\ UNCHANGED <<serverVars, videoCall>>

\* isHost of the page: hostId === user.id
IsHostPage(c) ==
    currentRoom[c] \in DOMAIN db /\ db[currentRoom[c]].host = userId[c]

\* tick, run by the interval while the displayed timer runs, on a page that is
\* not the host's (the host's page also emits timer-tick and timer-switch-mode:
\* those are the server's inputs).
PomodoroTick(c) ==
    LET prev == pomodoro[c].timerState
        newTime == prev.timeRemaining - 1
    IN
    /\ pomodoro[c].mounted
    /\ ~IsHostPage(c)
    /\ prev.isRunning
    /\ pomodoro[c].ticks < MaxLocalTicks
    /\ pomodoro' = [pomodoro EXCEPT
                      ![c].ticks = @ + 1,
                      ![c].timerState =
                         IF prev.timeRemaining <= 0 THEN prev
                         ELSE IF newTime <= 0
                         THEN [prev EXCEPT !.timeRemaining = 0, !.isRunning = FALSE]
                         ELSE [prev EXCEPT !.timeRemaining = newTime]]
    /\ step' = Step("pomodoro-tick", c, currentRoom[c])
    /\ out' = <<>>
    /\ UNCHANGED <<serverVars, net, videoCall>>

\* Date.now() of the page moves on.
PomodoroAdvance(c) ==
    /\ pomodoro[c].clock + ClockStep <= MaxClientClock
    /\ pomodoro' = [pomodoro EXCEPT ![c].clock = @ + ClockStep]
    /\ step' = Step("pomodoro-clock", c, currentRoom[c])
    /\ out' = <<>>
    /\ UNCHANGED <<serverVars, net, videoCall>>

(***************************************************************************)
(* The page of a connection: the VideoCall component.                      *)
(***************************************************************************)
\* The page renders the component once it has its socket and the room's state;
\* its effect registers the five listeners.
VideoCallMount(c) ==
    /\ connStatus[c] = "open"
    /\ currentRoom[c] # NoRoom
    /\ ~videoCall[c].mounted
    /\ videoCall' = [videoCall EXCEPT ![c].mounted = TRUE]
    /\ step' = Step("video-mount", c, currentRoom[c])
    /\ out' = <<>>
    /\ UNCHANGED <<serverVars, net, pomodoro>>

\* startCall: getUserMedia resolves (ok) or rejects; on success the page is in
\* the call and emits video-ready.
startCall(c, ok) ==
    /\ videoCall[c].mounted
    /\ ~videoCall[c].isInCall
    /\ IF ok
       THEN /\ videoCall' = [videoCall EXCEPT ![c].isInCall = TRUE]
            /\ VideoReadyBegin(c)
       ELSE /\ connStatus[c] = "open"
            /\ step' = Step("call-failed", c, currentRoom[c])
            /\ out' = <<>>
            /\ UNCHANGED <<serverVars, net, pomodoro, videoCall>>

\* The listener of event ev of page c takes the event at the head of its queue.
Takes(c, ev) ==
    /\ connStatus[c] = "open"
    /\ videoCall[c].mounted
    /\ net[c] # <<>>
    /\ Head(net[c]).ev = ev
    /\ net' = [net EXCEPT ![c] = Tail(@)]
    /\ out' = <<>>
    /\ UNCHANGED <<serverVars, pomodoro>>

\* A creation of an offer or an answer towards a peer that the page awaits.
Creation(kind, peer) == [kind |-> kind, peer |-> peer]

\* handleVideoUserReady, up to its first await.
handleVideoUserReady(c) ==
    LET p == Head(net[c]).payload.socketId
    IN
    /\ Takes(c, "video-user-ready")
    /\ IF ~videoCall[c].isInCall
       THEN /\ UNCHANGED videoCall
            /\ step' = Step("ready-ignored", c, currentRoom[c])
       ELSE /\ videoCall' = [videoCall EXCEPT ![c].pending = @ \cup {Creation("offer", p)}]
            /\ step' = Step("ready-handled", c, currentRoom[c])

\* handleVideoUserReady, after createOffer and setLocalDescription: the offer is
\* emitted and setPeers puts the peer in the map.
OfferCreated(c, p) ==
    /\ Creation("offer", p) \in videoCall[c].pending
    /\ videoCall' = [videoCall EXCEPT ![c].pending = @ \ {Creation("offer", p)},
                                     ![c].peers = @ \cup {p}]
    /\ VideoSignalBegin(c, "video-offer", SocketId(p), "sdp")

\* handleVideoOffer, up to its first await.
handleVideoOffer(c) ==
    LET p == Head(net[c]).payload.fromSocketId
    IN
    /\ Takes(c, "video-offer")
    /\ IF ~videoCall[c].isInCall
       THEN /\ UNCHANGED videoCall
            /\ step' = Step("offer-ignored", c, currentRoom[c])
       ELSE /\ videoCall' = [videoCall EXCEPT ![c].pending = @ \cup {Creation("answer", p)}]
            /\ step' = [Step("offer-accepted", c, currentRoom[c]) EXCEPT
                           !.action = SocketId(p)]

\* handleVideoOffer, after setRemoteDescription, createAnswer and
\* setLocalDescription: the answer is emitted and setPeers puts the peer in the
\* map.
AnswerCreated(c, p) ==
    /\ Creation("answer", p) \in videoCall[c].pending
    /\ videoCall' = [videoCall EXCEPT ![c].pending = @ \ {Creation("answer", p)},
                                     ![c].peers = @ \cup {p}]
    /\ VideoSignalBegin(c, "video-answer", SocketId(p), "sdp")

\* peerConnection.onicecandidate, which fires once the local description is set.
onicecandidate(c, p) ==
    /\ p \in videoCall[c].peers
    /\ videoCall[c].candidates < MaxCandidates
    /\ videoCall' = [videoCall EXCEPT ![c].candidates = @ + 1]
    /\ VideoSignalBegin(c, "video-ice-candidate", SocketId(p), "candidate")

\* useEffect(() => { peersRef.current = peers }, [peers])
SyncPeersRef(c) ==
    /\ connStatus[c] = "open"
    /\ videoCall[c].peersRef # videoCall[c].peers
    /\ videoCall' = [videoCall EXCEPT ![c].peersRef = videoCall[c].peers]
    /\ step' = Step("peers-synced", c, currentRoom[c])
    /\ out' = <<>>
    /\ UNCHANGED <<serverVars, net, pomodoro>>

\* peersRef.current.get(data.fromSocketId)
KnownPeer(c, p) == p \in videoCall[c].peersRef

\* handleVideoAnswer and handleIceCandidate: the description or the candidate is
\* applied to the peer's connection if the ref holds the peer, else dropped.
ApplyFromPeer(c, ev, applied, dropped) ==
    LET p == Head(net[c]).payload.fromSocketId
    IN
    /\ Takes(c, ev)
    /\ UNCHANGED videoCall
    /\ step' = [Step(IF KnownPeer(c, p) THEN applied ELSE dropped, c, currentRoom[c])
                  EXCEPT !.action = SocketId(p)]

handleVideoAnswer(c) ==
    ApplyFromPeer(c, "video-answer", "answer-applied", "answer-dropped")

handleIceCandidate(c) ==
    ApplyFromPeer(c, "video-ice-candidate", "candidate-applied", "candidate-dropped")

\* handleVideoUserLeft: removePeer(data.socketId)
handleVideoUserLeft(c) ==
    LET p == Head(net[c]).payload.socketId
    IN
    /\ Takes(c, "video-user-left")
    /\ videoCall' = IF p \in videoCall[c].peersRef
                    THEN [videoCall EXCEPT ![c].peers = @ \ {p}]
                    ELSE videoCall
    /\ step' = Step("peer-removed", c, currentRoom[c])

(***************************************************************************)
(* Inputs.                                                                 *)
(***************************************************************************)
Contents == {<<>>, <<" ">>, <<"h", "i">>, <<" ", "h", "i", " ">>}
TickTimes == {-1, 0, WorkDuration - 1, WorkDuration + 1}
TickData == [timeRemaining : TickTimes, isRunning : BOOLEAN, isBreak : BOOLEAN]
NumBusy == Cardinality({t \in TaskIds : tasks[t].kind # "idle"})

(***************************************************************************)
(* The timer: two users' connections in room R1, its host among them.      *)
(***************************************************************************)
TimerConns == 1..TimerNConns
TimerTickData ==
    {[timeRemaining |-> WorkDuration - 1, isRunning |-> TRUE, isBreak |-> FALSE],
     [timeRemaining |-> 0, isRunning |-> TRUE, isBreak |-> FALSE],
     [timeRemaining |-> -1, isRunning |-> FALSE, isBreak |-> TRUE]}

\* Odd connections present the host's credential, even ones another user's.
TimerToken(c) == IF c % 2 = 1 THEN "tok-u1" ELSE "tok-u2"

NextTimer ==
    \/ \E c \in TimerConns : Connect(c, TimerToken(c))
    \/ \E c \in TimerConns : NumBusy = 0 /\ JoinRoomStart(c, "R1")
    \/ \E t \in TaskIds, ok \in BOOLEAN : DbFindOne(t, ok)
    \/ \E t \in TaskIds : JoinRoomResume(t)
    \/ \E c \in TimerConns : LeaveRoom(c)
    \/ \E c \in TimerConns : Disconnect(c)
    \/ \E c \in TimerConns, action \in TimerActions :
          NumBusy = 0 /\ TimerActionStart(c, action)
    \/ \E t \in TaskIds : TimerActionResume(t)
    \/ \E t \in TaskIds, ok \in BOOLEAN : DbUpdate(t, ok)
    \/ \E t \in TaskIds : TimerActionEmit(t)
    \/ \E c \in TimerConns, data \in TimerTickData :
          NumBusy = 0 /\ TimerTickStart(c, data)
    \/ \E t \in TaskIds : TimerTickEmit(t)

SpecTimer == Init /\ [][NextTimer]_vars

(***************************************************************************)
(* Presence: connections of any user joining, leaving and dropping out of  *)
(* the rooms, with their joins suspended at the room lookup.               *)
(***************************************************************************)
PresenceConns == 1..PresenceNConns

NextPresence ==
    \/ \E c \in PresenceConns : Connect(c, TimerToken(c))
    \/ \E c \in PresenceConns, roomId \in RoomIds \cup {UnknownRoom} :
          JoinRoomStart(c, roomId)
    \/ \E t \in TaskIds, ok \in BOOLEAN : DbFindOne(t, ok)
    \/ \E t \in TaskIds : JoinRoomResume(t)
    \/ \E c \in PresenceConns : LeaveRoom(c)
    \/ \E c \in PresenceConns : Disconnect(c)

SpecPresence == Init /\ [][NextPresence]_vars

(***************************************************************************)
(* Chat: one connection filling the history of room R1.                    *)
(***************************************************************************)
NextChat ==
    \/ Connect(1, "tok-u1")
    \/ NumBusy = 0 /\ JoinRoomStart(1, "R1")
    \/ \E t \in TaskIds : DbFindOne(t, TRUE)
    \/ \E t \in TaskIds : JoinRoomResume(t)
    \/ LeaveRoom(1)
    \/ nAppended < MaxChatSends /\ SendMessage(1, <<"h", "i">>)

SpecChat == Init /\ [][NextChat]_vars

(***************************************************************************)
(* Overlapping handlers: the host's connection in room R1, its timer       *)
(* commands and ticks suspended at their awaits at the same time.          *)
(***************************************************************************)
NextRace ==
    \/ Connect(1, "tok-u1")
    \/ NumBusy = 0 /\ currentRoom[1] = NoRoom /\ JoinRoomStart(1, "R1")
    \/ \E t \in TaskIds : DbFindOne(t, TRUE)
    \/ \E t \in TaskIds : JoinRoomResume(t)
    \/ \E action \in TimerActions : TimerActionStart(1, action)
    \/ \E t \in TaskIds : TimerActionResume(t)
    \/ \E t \in TaskIds : DbUpdate(t, TRUE)
    \/ \E t \in TaskIds : TimerActionEmit(t)
    \/ \E data \in TimerTickData : TimerTickStart(1, data)
    \/ \E t \in TaskIds : TimerTickEmit(t)

SpecRace == Init /\ [][NextRace]_vars

(***************************************************************************)
(* The message relay: connections of two users moving between the rooms    *)
(* and talking in them.                                                    *)
(***************************************************************************)
RelayConns == 1..RelayNConns
RelayContents == {<<>>, <<" ", "h", "i", " ">>}

NextRelay ==
    \/ \E c \in RelayConns : Connect(c, TimerToken(c))
    \/ \E c \in RelayConns, roomId \in RoomIds : NumBusy = 0 /\ JoinRoomStart(c, roomId)
    \/ \E t \in TaskIds : DbFindOne(t, TRUE)
    \/ \E t \in TaskIds : JoinRoomResume(t)
    \/ \E c \in RelayConns : LeaveRoom(c)
    \/ \E c \in RelayConns : Disconnect(c)
    \/ \E c \in RelayConns, content \in RelayContents :
          nAppended < MaxSends /\ SendMessage(c, content)

SpecRelay == Init /\ [][NextRelay]_vars

(***************************************************************************)
(* Signaling: three connections in and out of room R1, exchanging          *)
(* negotiation messages.                                                   *)
(***************************************************************************)
SignalConns == 1..NConns
SignalTargets == {SocketId(c) : c \in SignalConns} \cup {"R1"}
SignalBodies == {"sdp"}

NextSignal ==
    \/ \E c \in SignalConns : Connect(c, TimerToken(c))
    \/ \E c \in SignalConns : NumBusy = 0 /\ JoinRoomStart(c, "R1")
    \/ \E t \in TaskIds : DbFindOne(t, TRUE)
    \/ \E t \in TaskIds : JoinRoomResume(t)
    \/ \E c \in SignalConns : LeaveRoom(c)
    \/ \E c \in SignalConns : Disconnect(c)
    \/ \E c \in SignalConns, kind \in SignalKinds, target \in SignalTargets,
          payload \in SignalBodies : VideoSignal(c, kind, target, payload)
    \/ \E c \in SignalConns : VideoReady(c)
    \/ \E c \in SignalConns : VideoLeave(c)

SpecSignal == Init /\ [][NextSignal]_vars

(***************************************************************************)
(* The connection gate: connections presenting any credential, then using  *)
(* room R1.                                                                *)
(***************************************************************************)
GateConns == 1..GateNConns

NextGate ==
    \/ \E c \in GateConns, token \in Tokens : Connect(c, token)
    \/ \E c \in GateConns : NumBusy = 0 /\ JoinRoomStart(c, "R1")
    \/ \E t \in TaskIds : DbFindOne(t, TRUE)
    \/ \E t \in TaskIds : JoinRoomResume(t)
    \/ \E c \in GateConns : LeaveRoom(c)
    \/ \E c \in GateConns : Disconnect(c)
    \/ \E c \in GateConns : nAppended < MaxSends /\ SendMessage(c, <<"h", "i">>)
    \/ \E c \in GateConns, target \in {SocketId(d) : d \in GateConns} :
          VideoSignal(c, "video-offer", target, "sdp")

SpecGate == Init /\ [][NextGate]_vars

(***************************************************************************)
(* Two timer events of the host, overlapping or not, each recorded as it   *)
(* is received.                                                            *)
(***************************************************************************)
NextSerial ==
    \/ Connect(1, "tok-u1")
    \/ NumBusy = 0 /\ currentRoom[1] = NoRoom /\ JoinRoomStart(1, "R1")
    \/ \E t \in TaskIds : DbFindOne(t, TRUE)
    \/ \E t \in TaskIds : JoinRoomResume(t)
    \/ \E action \in TimerActions :
          /\ Len(evs) < MaxEvents /\ currentRoom[1] = "R1"
          /\ TimerActionRecorded(1, action)
    \/ \E t \in TaskIds : TimerActionResume(t)
    \/ \E t \in TaskIds : DbUpdate(t, TRUE)
    \/ \E t \in TaskIds : TimerActionEmit(t)
    \/ \E data \in TimerTickData :
          /\ Len(evs) < MaxEvents /\ currentRoom[1] = "R1"
          /\ TimerTickRecorded(1, data)
    \/ \E t \in TaskIds : TimerTickEmit(t)

SpecSerial == Init /\ [][NextSerial]_vars

(***************************************************************************)
(* The join reply: two connections joining room R1 while its host runs the *)
(* timer and talks, the joins' lookups overlapping the timer's writes.     *)
(***************************************************************************)
SnapshotActions == {"start", "switch"}

NextSnapshot ==
    \/ \E c \in TimerConns : Connect(c, TimerToken(c))
    \/ \E c \in TimerConns : JoinRoomStart(c, "R1")
    \/ \E t \in TaskIds : DbFindOne(t, TRUE)
    \/ \E t \in TaskIds : JoinRoomResume(t)
    \/ \E action \in SnapshotActions : TimerActionStart(1, action)
    \/ \E t \in TaskIds : TimerActionResume(t)
    \/ \E t \in TaskIds : DbUpdate(t, TRUE)
    \/ \E t \in TaskIds : TimerActionEmit(t)
    \/ nAppended < MaxSends /\ SendMessage(1, <<"h", "i">>)

SpecSnapshot == Init /\ [][NextSnapshot]_vars

(***************************************************************************)
(* Chat as time passes: one connection in room R1 sending any content,     *)
(* several messages within one millisecond or not.                         *)
(***************************************************************************)
NextClockedChat ==
    \/ Connect(1, "tok-u1")
    \/ NumBusy = 0 /\ currentRoom[1] = NoRoom /\ JoinRoomStart(1, "R1")
    \/ \E t \in TaskIds : DbFindOne(t, TRUE)
    \/ \E t \in TaskIds : JoinRoomResume(t)
    \/ LeaveRoom(1)
    \/ \E content \in Contents : nAppended < MaxSends /\ SendMessage(1, content)
    \/ AdvanceClock

SpecClockedChat == Init /\ [][NextClockedChat]_vars

(***************************************************************************)
(* The host's timer commands handled one after the other as time passes,   *)
(* each recorded as it is received.                                        *)
(***************************************************************************)
NextSteady ==
    \/ Connect(1, "tok-u1")
    \/ NumBusy = 0 /\ currentRoom[1] = NoRoom /\ JoinRoomStart(1, "R1")
    \/ \E t \in TaskIds : DbFindOne(t, TRUE)
    \/ \E t \in TaskIds : JoinRoomResume(t)
    \/ \E action \in TimerActions :
          /\ NumBusy = 0 /\ Len(evs) < MaxSteadyEvents /\ currentRoom[1] = "R1"
          /\ TimerActionRecorded(1, action)
    \/ \E t \in TaskIds : TimerActionResume(t)
    \/ \E t \in TaskIds : DbUpdate(t, TRUE)
    \/ \E t \in TaskIds : TimerActionEmit(t)
    \/ AdvanceClock

SpecSteady == Init /\ [][NextSteady]_vars

(***************************************************************************)
(* The displayed timer: the host's commands and ticks, handled one after   *)
(* the other, and the page of a participant that is not the host.          *)
(***************************************************************************)
NextSync ==
    \/ \E c \in TimerConns : Connect(c, TimerToken(c))
    \/ \E c \in TimerConns :
          NumBusy = 0 /\ currentRoom[c] = NoRoom /\ JoinRoomStart(c, "R1")
    \/ \E t \in TaskIds : DbFindOne(t, TRUE)
    \/ \E t \in TaskIds : JoinRoomResume(t)
    \/ PomodoroMount(2)
    \/ \E action \in SnapshotActions :
          NumBusy = 0 /\ Len(net[2]) < MaxPending /\ TimerActionStart(1, action)
    \/ \E t \in TaskIds : TimerActionResume(t)
    \/ \E t \in TaskIds : DbUpdate(t, TRUE)
    \/ \E t \in TaskIds : TimerActionEmit(t)
    \/ \E data \in TimerTickData :
          NumBusy = 0 /\ Len(net[2]) < MaxPending /\ TimerTickStart(1, data)
    \/ \E t \in TaskIds : TimerTickEmit(t)
    \/ handleTimerSync(2)
    \/ PomodoroTick(2)
    \/ PomodoroAdvance(2)

SpecSync == Init /\ [][NextSync]_vars

(***************************************************************************)
(* The signaling handshake: the pages of two connections in one room, the  *)
(* server forwarding between them.                                         *)
(***************************************************************************)
NextHandshake ==
    \/ \E c \in TimerConns : Connect(c, TimerToken(c))
    \/ \E c \in TimerConns :
          NumBusy = 0 /\ currentRoom[c] = NoRoom /\ JoinRoomStart(c, "R1")
    \/ \E t \in TaskIds : DbFindOne(t, TRUE)
    \/ \E t \in TaskIds : JoinRoomResume(t)
    \/ \E c \in TimerConns : Disconnect(c)
    \/ \E c \in TimerConns : VideoCallMount(c)
    \/ \E c \in TimerConns, ok \in BOOLEAN : startCall(c, ok)
    \/ \E c \in TimerConns : handleVideoUserReady(c)
    \/ \E c, p \in TimerConns : OfferCreated(c, p)
    \/ \E c \in TimerConns : handleVideoOffer(c)
    \/ \E c, p \in TimerConns : AnswerCreated(c, p)
    \/ \E c, p \in TimerConns : onicecandidate(c, p)
    \/ \E c \in TimerConns : SyncPeersRef(c)
    \/ \E c \in TimerConns : handleVideoAnswer(c)
    \/ \E c \in TimerConns : handleIceCandidate(c)
    \/ \E c \in TimerConns : handleVideoUserLeft(c)

SpecHandshake == Init /\ [][NextHandshake]_vars

(***************************************************************************)
(* The whole engine: every handler, for every connection and input. The    *)
(* specifications above are its restrictions to one part of the engine.    *)
(***************************************************************************)
Next ==
    \/ \E c \in Conns, token \in Tokens : Connect(c, token)
    \/ \E c \in Conns, roomId \in RoomIds \cup {UnknownRoom} : JoinRoomStart(c, roomId)
    \/ \E t \in TaskIds, ok \in BOOLEAN : DbFindOne(t, ok)
    \/ \E t \in TaskIds : JoinRoomResume(t)
    \/ \E c \in Conns : LeaveRoom(c)
    \/ \E c \in Conns : Disconnect(c)
    \/ \E c \in Conns, content \in Contents :
          nAppended < MaxSends /\ SendMessage(c, content)
    \/ \E c \in Conns, action \in TimerActions : TimerActionStart(c, action)
    \/ \E t \in TaskIds : TimerActionResume(t)
    \/ \E t \in TaskIds, ok \in BOOLEAN : DbUpdate(t, ok)
    \/ \E t \in TaskIds : TimerActionEmit(t)
    \/ \E c \in Conns, data \in TickData : TimerTickStart(c, data)
    \/ \E t \in TaskIds : TimerTickEmit(t)
    \/ \E c \in Conns, kind \in SignalKinds, payload \in SignalBodies,
          target \in {SocketId(d) : d \in Conns} \cup RoomIds :
          VideoSignal(c, kind, target, payload)
    \/ \E c \in Conns : VideoReady(c)
    \/ \E c \in Conns : VideoLeave(c)
    \/ AdvanceClock
    \/ \E c \in Conns : PomodoroMount(c)
    \/ \E c \in Conns : handleTimerSync(c)
    \/ \E c \in Conns : PomodoroTick(c)
    \/ \E c \in Conns : PomodoroAdvance(c)
    \/ \E c \in Conns : VideoCallMount(c)
    \/ \E c \in Conns, ok \in BOOLEAN : startCall(c, ok)
    \/ \E c \in Conns : handleVideoUserReady(c)
    \/ \E c, p \in Conns : OfferCreated(c, p)
    \/ \E c \in Conns : handleVideoOffer(c)
    \/ \E c, p \in Conns : AnswerCreated(c, p)
    \/ \E c, p \in Conns : onicecandidate(c, p)
    \/ \E c \in Conns : SyncPeersRef(c)
    \/ \E c \in Conns : handleVideoAnswer(c)
    \/ \E c \in Conns : handleIceCandidate(c)
    \/ \E c \in Conns : handleVideoUserLeft(c)

Spec == Init /\ [][Next]_vars

(***************************************************************************)
(* Properties.                                                             *)
(***************************************************************************)
\* The events of name ev that a step's output sends to connection d.
Sent(o, d, ev) == {i \in DOMAIN o : o[i].to = d /\ o[i].ev = ev}
SentAny(o, ev) == {i \in DOMAIN o : o[i].ev = ev}
RegistrySize(r) == IF r \in DOMAIN roomUsers THEN Len(roomUsers[r]) ELSE 0
TimerOf(d, r) == d[r].timerState
\* The suspended handler t of the given kind takes the step being looked at.
StepOf(t, kind) == tasks[t].kind = kind /\ step'.task = t
Finishes(t) == tasks'[t].kind = "idle"
RequesterIsHost(t) == userId[tasks[t].conn] = db[tasks[t].room].host

\* C1: in every reachable state, every room's presence registry has as many
\* entries as there are connections that joined the room and have not since
\* sent leave-room or disconnected.
C1_RegistryCountsJoined ==
    \A r \in RoomIds : RegistrySize(r) = Cardinality(joined[r])

\* C2: every step of a timer command of a joined connection that is not the
\* room's host leaves the durable timer state unchanged and sends no timer-sync;
\* the command never reaches its write, and the step that ends it sends exactly
\* one event, an 'error' to the requester.
C2_NonHostCommandRejected ==
    [][\A t \in TaskIds :
         (StepOf(t, "timer") /\ ~RequesterIsHost(t)) =>
            /\ db' = db
            /\ SentAny(out', "timer-sync") = {}
            /\ IF Finishes(t)
               THEN /\ Len(out') = 1
                    /\ Cardinality(Sent(out', tasks[t].conn, "error")) = 1
               ELSE /\ out' = <<>>
                    /\ tasks'[t].stage \notin {"update", "updated"}]_vars

\* A non-host's command has been refused while the host is in the room with it.
C2_Witness ==
    /\ step.op = "timer-denied"
    /\ Cardinality(Members(sioRooms, connStatus, step.room)) >= 2
    /\ Cardinality(Sent(out, step.conn, "error")) = 1

\* C3: a room's stored history never holds more than 100 messages, and a
\* send-message that appends to a full history evicts exactly the oldest message
\* and keeps the others in order (to a history that is not full it only appends).
C3_HistoryCapped ==
    /\ [](\A r \in DOMAIN roomMessages : Len(roomMessages[r]) <= HistoryCap)
    /\ [][\A r \in DOMAIN roomMessages :
            (step'.op = "send-message" /\ step'.room = r /\ nAppended' # nAppended) =>
               /\ r \in DOMAIN roomMessages'
               /\ LET old == roomMessages[r]
                      new == roomMessages'[r]
                  IN /\ new # <<>>
                     /\ new[Len(new)].seq = nAppended'
                     /\ new = (IF Len(old) = HistoryCap THEN Tail(old) ELSE old)
                               \o <<new[Len(new)]>>]_vars

\* The 101st message has been appended: the 1st is gone, the 2nd to the 101st are
\* there in order.
C3_Witness ==
    /\ "R1" \in DOMAIN roomMessages
    /\ nAppended = HistoryCap + 1
    /\ Len(roomMessages["R1"]) = HistoryCap
    /\ \A i \in 1..HistoryCap : roomMessages["R1"][i].seq = i + 1

\* C4: the write of a host's timer-reset leaves the durable timer state with
\* timeRemaining equal to the duration of its phase, isRunning false and startedAt
\* null, and isBreak as it was; the timer-sync the handler then sends carries such
\* a state, of the same phase.
IsReset(ts) ==
    /\ ts.timeRemaining = PhaseDuration(ts, ts.isBreak)
    /\ ~ts.isRunning
    /\ ts.startedAt = NullDate

C4_ResetYieldsPhaseDuration ==
    [][\A t \in TaskIds :
         (StepOf(t, "timer") /\ tasks[t].action = "reset") =>
            LET old == TimerOf(db, tasks[t].room)
                new == TimerOf(db', tasks[t].room)
            IN /\ tasks[t].stage = "update" =>
                     /\ IsReset(new)
                     /\ new.isBreak = old.isBreak
               /\ \A i \in SentAny(out', "timer-sync") :
                     /\ IsReset(out'[i].payload)
                     /\ out'[i].payload.isBreak = old.isBreak]_vars

\* C5: the write of a timer-tick whose timeRemaining is 0 leaves the durable timer
\* state with isBreak flipped, timeRemaining at the new phase's duration and
\* isRunning false.
C5_TickZeroSwitchesPhase ==
    [][\A t \in TaskIds :
         (StepOf(t, "tick") /\ tasks[t].data.timeRemaining = 0
            /\ step'.op = "db-update") =>
            LET old == TimerOf(db, tasks[t].room)
                new == TimerOf(db', tasks[t].room)
            IN /\ new.isBreak = ~old.isBreak
               /\ new.timeRemaining = PhaseDuration(new, new.isBreak)
               /\ ~new.isRunning]_vars

\* C6: in every reachable state, every room's timeRemaining lies between 0 and the
\* duration of its current phase.
C6_TimeRemainingInRange ==
    \A r \in DOMAIN db :
        LET ts == TimerOf(db, r)
        IN ts.timeRemaining \in 0..PhaseDuration(ts, ts.isBreak)

\* C7: in every reachable state, a room's timer with timeRemaining 0 is not running.
C7_ZeroImpliesStopped ==
    \A r \in DOMAIN db :
        TimerOf(db, r).timeRemaining = 0 => ~TimerOf(db, r).isRunning

\* C8: every step of a timer-tick of a joined connection that is not the room's
\* host leaves the durable timer state unchanged and sends no timer-sync, and the
\* step that ends it sends exactly one event, an 'error' to the requester.
C8_NonHostTickRejected ==
    [][\A t \in TaskIds :
         (StepOf(t, "tick") /\ ~RequesterIsHost(t)) =>
            /\ db' = db
            /\ SentAny(out', "timer-sync") = {}
            /\ Finishes(t) =>
                  /\ Len(out') = 1
                  /\ Cardinality(Sent(out', tasks[t].conn, "error")) = 1]_vars

\* C9: when the handler of the host's timer-tick ends, it has sent every other
\* participant of the room exactly one timer-sync, carrying the tick's payload,
\* and none to the sender.
C9_HostTickReachesOthers ==
    [][\A t \in TaskIds :
         (StepOf(t, "tick") /\ RequesterIsHost(t) /\ Finishes(t)) =>
            /\ \A d \in Members(sioRooms, connStatus, tasks[t].room) \ {tasks[t].conn} :
                  /\ Cardinality(Sent(out', d, "timer-sync")) = 1
                  /\ \A i \in Sent(out', d, "timer-sync") :
                        out'[i].payload = tasks[t].data
            /\ Sent(out', tasks[t].conn, "timer-sync") = {}]_vars

\* C10: when the write of a host's timer command has succeeded, the step that ends
\* the handler sends exactly one timer-sync to every connection then in the room,
\* the host's included, and nothing else; the payload is the state the command
\* computed: running after start, stopped after pause, reset and switch-mode.
C10_HostCommandReachesAll ==
    [][\A t \in TaskIds :
         (StepOf(t, "timer") /\ tasks[t].stage = "updated" /\ tasks[t].ok) =>
            LET room == Members(sioRooms, connStatus, tasks[t].room)
                p == NewState(tasks[t].action, tasks[t].snap.timerState,
                              tasks[t].newState.startedAt)
            IN /\ Finishes(t)
               /\ RequesterIsHost(t)
               /\ \A d \in room : Cardinality(Sent(out', d, "timer-sync")) = 1
               /\ \A i \in DOMAIN out' :
                     /\ out'[i].to \in room
                     /\ out'[i].ev = "timer-sync"
                     /\ out'[i].payload = p
               /\ p.isRunning = (tasks[t].action = "start")]_vars

\* The host's timer-start has been broadcast to the host and another participant.
C10_Witness ==
    /\ step.op = "timer-sync"
    /\ step.action = "start"
    /\ Len(out) >= 2
    /\ \E i \in DOMAIN out : out[i].to = step.conn
    /\ \A i \in DOMAIN out : out[i].ev = "timer-sync" /\ out[i].payload.isRunning

\* The connection d has an entry in the presence registry of room r.
HasEntry(r, d) ==
    r \in DOMAIN roomUsers /\ \E i \in DOMAIN roomUsers[r] : roomUsers[r][i].socketId = d
IsLeaveStep(s) == s.op \in {"leave-room", "disconnect"}

\* C11: every accepted send-message of a joined connection is delivered as
\* receive-message exactly once to every connected connection with an entry in
\* the presence registry of the sender's room, the sender among them, and to no
\* other connection; what each receives is the message stored in the room's
\* history, with its id and content.
C11_MessageReachesRoom ==
    [][(step'.op = "send-message" /\ nAppended' # nAppended) =>
         LET c == step'.conn
             r == step'.room
         IN /\ r # NoRoom /\ r = currentRoom[c]
            /\ r \in DOMAIN roomMessages'
            /\ Cardinality(Sent(out', c, "receive-message")) = 1
            /\ \A d \in Conns :
                  IF connStatus[d] = "open" /\ HasEntry(r, d)
                  THEN Cardinality(Sent(out', d, "receive-message")) = 1
                  ELSE Sent(out', d, "receive-message") = {}
            /\ \A i \in DOMAIN out' :
                  LET stored == roomMessages'[r][Len(roomMessages'[r])]
                  IN /\ out'[i].ev = "receive-message"
                     /\ out'[i].payload.id = stored.id
                     /\ out'[i].payload.content = stored.content
                     /\ out'[i].payload = stored]_vars

\* C11 happens: a message sent with blanks around it reached both connections
\* of the room, the sender first.
C11_Witness ==
    /\ step.op = "send-message" /\ step.conn = 1
    /\ Len(out) = 2
    /\ out[1].to = 1 /\ out[2].to = 2
    /\ out[2].ev = "receive-message"
    /\ out[2].payload.content = <<"h", "i">>
    /\ currentRoom[2] = step.room

\* C12: any two connections that were both given two chat messages were given
\* them in the same order, the order in which the relay appended them (the
\* messages' append numbers), which is also their order in the history.
C12_SameOrderEverywhere ==
    /\ \A c, d \in Conns :
          \A i1, i2 \in DOMAIN inbox[c] : \A j1, j2 \in DOMAIN inbox[d] :
             (inbox[c][i1] = inbox[d][j1] /\ inbox[c][i2] = inbox[d][j2] /\ i1 # i2) =>
                /\ (i1 < i2) <=> (j1 < j2)
                /\ (i1 < i2) <=> (inbox[c][i1] < inbox[c][i2])
    /\ \A r \in DOMAIN roomMessages :
          \A i, j \in DOMAIN roomMessages[r] :
             i < j => roomMessages[r][i].seq < roomMessages[r][j].seq

\* C12 happens: two connections were both given the same two messages, sent by
\* different connections, and the room's history holds both.
C12_Witness ==
    /\ Len(inbox[1]) = 2 /\ inbox[1] = inbox[2]
    /\ \E r \in DOMAIN roomMessages :
          /\ Len(roomMessages[r]) = 2
          /\ roomMessages[r][1].userId # roomMessages[r][2].userId

\* C13: a video-offer, video-answer or video-ice-candidate of connection A that
\* names the socket of connection B as its target is delivered to B only, once
\* when B is connected, under its own event name and with fromSocketId = A.
C13_SignalReachesTargetOnly ==
    [][\A b \in Conns :
         (step'.op \in SignalKinds /\ step'.action = SocketId(b)) =>
            /\ \A i \in DOMAIN out' :
                  /\ out'[i].to = b
                  /\ out'[i].ev = step'.op
                  /\ out'[i].payload.fromSocketId = step'.conn
            /\ connStatus[b] = "open" => Len(out') = 1
            /\ UNCHANGED <<roomUsers, roomMessages, sioRooms, currentRoom, db>>]_vars

\* C13 happens: three connections are in room R1 and the offer of connection 1
\* to connection 2 went to connection 2 alone.
C13_Witness ==
    /\ step.op = "video-offer" /\ step.conn = 1 /\ step.action = SocketId(2)
    /\ \A c \in Conns : currentRoom[c] = "R1" /\ connStatus[c] = "open"
    /\ Len(out) = 1 /\ out[1].to = 2 /\ out[1].payload.fromSocketId = 1
    /\ out[1].payload.offer = "sdp"

\* The users-update lists sent to d by a step do not name connection c.
ListsWithout(o, d, c) ==
    \A i \in Sent(o, d, "users-update") :
       \A k \in DOMAIN o[i].payload : o[i].payload[k].socketId # c

\* C14: when a joined connection B disconnects or sends leave-room, every other
\* connected participant of B's room (its current room is that room, or the
\* room's registry lists it) receives exactly one user-left for B, one
\* users-update that does not list B's connection, and one video-user-left with
\* B's connection id.
C14_LeaveIsAnnounced ==
    [][(IsLeaveStep(step') /\ step'.room # NoRoom) =>
         LET b == step'.conn
             r == step'.room
         IN \A d \in Conns \ {b} :
              (connStatus[d] = "open" /\ (currentRoom[d] = r \/ HasEntry(r, d))) =>
                 /\ Cardinality(Sent(out', d, "user-left")) = 1
                 /\ \A i \in Sent(out', d, "user-left") :
                       out'[i].payload = UserRec(b)
                 /\ Cardinality(Sent(out', d, "users-update")) = 1
                 /\ ListsWithout(out', d, b)
                 /\ Cardinality(Sent(out', d, "video-user-left")) = 1
                 /\ \A i \in Sent(out', d, "video-user-left") :
                       out'[i].payload.socketId = b]_vars

\* C14 happens: connection 2 dropped out of the room it shared with connection
\* 1, which was given the three notices.
C14_Witness ==
    /\ step.op = "disconnect" /\ step.conn = 2 /\ step.room # NoRoom
    /\ connStatus[1] = "open" /\ currentRoom[1] = step.room
    /\ Len(out) = 3
    /\ \A i \in DOMAIN out : out[i].to = 1
    /\ out[2].ev = "users-update" /\ Len(out[2].payload) = 1
    /\ out[3].ev = "video-user-left" /\ out[3].payload.socketId = 2

\* C15: when the connection that leaves or disconnects holds the last entry of
\* its room's registry, the room's presence map and history are dropped; and a
\* connection joining a room that has no presence map is answered with a
\* room-state whose history is empty and whose participant list is itself alone.
C15_EmptyRoomIsDropped ==
    [][/\ (IsLeaveStep(step') /\ step'.room # NoRoom) =>
            LET b == step'.conn
                r == step'.room
            IN (HasEntry(r, b) /\ \A d \in Conns \ {b} : ~HasEntry(r, d)) =>
                  r \notin DOMAIN roomUsers' /\ r \notin DOMAIN roomMessages'
       /\ (step'.op = "join" /\ step'.room \notin DOMAIN roomUsers) =>
            /\ Cardinality(Sent(out', step'.conn, "room-state")) = 1
            /\ \A i \in Sent(out', step'.conn, "room-state") :
                  /\ out'[i].payload.messages = <<>>
                  /\ out'[i].payload.users = <<UserRec(step'.conn)>>]_vars

\* C15 happens: messages had been stored, every room was then emptied, and the
\* connection now joining is given an empty history and itself as the only
\* participant.
C15_Witness ==
    /\ step.op = "join"
    /\ nAppended > 0
    /\ DOMAIN roomMessages = {step.room}
    /\ roomMessages[step.room] = <<>>
    /\ roomUsers[step.room] = <<UserRec(step.conn)>>
    /\ out[1].ev = "room-state" /\ out[1].payload.messages = <<>>
    /\ inbox[step.conn] # <<>>

\* The events a connection can send besides join-room.
OtherEvents ==
    SignalKinds \cup {"send-message", "timer-start", "tick-start", "video-ready",
                      "video-leave", "leave-room"}

\* C16: an event other than join-room of a connection that is in no room (it
\* never joined, its join failed, or it left) changes no state and delivers
\* nothing to any other connection.
C16_UnjoinedEventsIgnored ==
    [][(step'.op \in OtherEvents /\ currentRoom[step'.conn] = NoRoom) =>
         /\ UNCHANGED <<connStatus, userId, currentRoom, sioRooms, roomUsers,
                        roomMessages, db, tasks>>
         /\ \A i \in DOMAIN out' : out'[i].to = step'.conn]_vars

\* C17: a join-room naming a room without a durable record ends by sending
\* exactly one 'error' to the requester and nothing else, with the presence
\* registry, the histories, the Socket.io rooms, the connection's current room
\* and its status left as they were.
C17_UnknownRoomRejected ==
    [][\A t \in TaskIds :
         (StepOf(t, "join") /\ Finishes(t) /\ tasks[t].room \notin DOMAIN db) =>
            /\ Len(out') = 1
            /\ out'[1].to = tasks[t].conn /\ out'[1].ev = "error"
            /\ tasks[t].room \notin DOMAIN roomUsers'
            /\ tasks[t].room \notin DOMAIN roomMessages'
            /\ UNCHANGED <<roomUsers, roomMessages, sioRooms, currentRoom,
                           connStatus>>]_vars

\* C17 happens: an open connection in no room was answered 'Room not found'.
C17_Witness ==
    /\ step.op = "join-notfound" /\ step.room = UnknownRoom
    /\ connStatus[step.conn] = "open" /\ currentRoom[step.conn] = NoRoom
    /\ Len(out) = 1 /\ out[1].ev = "error"
    /\ out[1].payload.message = "Room not found"
    /\ UnknownRoom \notin DOMAIN roomUsers

\* C18: a connect whose credential is missing or does not verify is refused, and
\* a refused connection takes no step ever after, has no entry in any registry
\* and is in no Socket.io room; a connect with a credential issued to user u is
\* accepted with userId (and the username that goes with it) set from it.
C18_GateKeepsOut ==
    /\ [](\A c \in Conns :
            connStatus[c] = "refused" =>
               /\ \A r \in RoomIds : ~HasEntry(r, c)
               /\ sioRooms[c] = {} /\ currentRoom[c] = NoRoom /\ inbox[c] = <<>>)
    /\ [][/\ step'.conn \in Conns => connStatus[step'.conn] # "refused"
          /\ step'.op = "connect" =>
               LET c == step'.conn
               IN /\ (\A u \in Users : step'.action # "tok-" \o u) =>
                        connStatus'[c] = "refused" /\ userId'[c] = NoUser
                  /\ \A u \in Users :
                        step'.action = "tok-" \o u =>
                           connStatus'[c] = "open" /\ userId'[c] = u
          /\ \A i \in DOMAIN out' :
                connStatus'[out'[i].to] # "refused"
                /\ (out'[i].ev = "user-joined" =>
                       out'[i].payload.id = userId[out'[i].payload.socketId])]_vars

\* C18 happens: connection 1 was refused for a credential that does not verify
\* while connection 2, accepted as user u2, talks in room R1.
C18_Witness ==
    /\ connStatus[1] = "refused" /\ userId[1] = NoUser
    /\ connStatus[2] = "open" /\ userId[2] = "u2"
    /\ step.op = "send-message" /\ step.conn = 2
    /\ Len(out) = 1 /\ out[1].payload.userId = "u2"
    /\ out[1].payload.username = NameOf("u2")

\* C19: when the durable write of a timer command or of a timer-tick fails, the
\* handler still sends the timer-sync (a command's to every connection of the
\* room, a tick's to every connection of the room but the sender) and sends no
\* 'error' to anyone.
C19_WriteFailureSwallowed ==
    [][\A t \in TaskIds :
         ((StepOf(t, "timer") \/ StepOf(t, "tick")) /\ Finishes(t)
            /\ tasks[t].stage = "updated" /\ ~tasks[t].ok) =>
            /\ SentAny(out', "error") = {}
            /\ \A d \in Members(sioRooms, connStatus, tasks[t].room) :
                  (tasks[t].kind = "timer" \/ d # tasks[t].conn) =>
                     Cardinality(Sent(out', d, "timer-sync")) = 1]_vars

\* One recorded event applied to a timer state in one piece.
ApplyEvent(ts, e) ==
    IF e.kind = "timer"
    THEN NewState(e.action, ts, now)
    ELSE ApplyUpdate(ts, [timeRemaining |-> e.data.timeRemaining,
                          isRunning |-> e.data.isRunning])

\* The timer states that applying the events numbered in S, one after the other
\* in any order, can lead to from ts.
RECURSIVE SerialOutcomes(_, _)
SerialOutcomes(ts, S) ==
    IF S = {} THEN {ts}
    ELSE UNION {SerialOutcomes(ApplyEvent(ts, evs[i]), S \ {i}) : i \in S}

\* C20: once the handlers of the host's timer events have all finished, the
\* persisted timer state of the room is one that applying those events one at
\* a time, in some order, produces from the state the room started with.
C20_TimerEventsSerialized ==
    NumBusy = 0 =>
       TimerOf(db, "R1") \in SerialOutcomes(DefaultTimerState, DOMAIN evs)

\* The rooms whose presence registry has an entry for connection c.
RoomsOf(c) == {r \in DOMAIN roomUsers : HasEntry(r, c)}

C22_OneEntryPerConnection ==
    \A c \in Conns :
       /\ Cardinality(RoomsOf(c)) <= 1
       /\ (connStatus[c] = "open" /\ currentRoom[c] # NoRoom) =>
             RoomsOf(c) = {currentRoom[c]}

\* C23: in every reachable state no presence registry has an entry for a
\* connection that has disconnected.
C23_NoEntryAfterDisconnect ==
    \A c \in Conns : connStatus[c] = "closed" => RoomsOf(c) = {}

\* The events the host's client emits at the end of a work phase.
FinalTick ==
    [kind |-> "tick", action |-> "none",
     data |-> [timeRemaining |-> 0, isRunning |-> TRUE, isBreak |-> FALSE]]
Command(action) == [kind |-> "timer", action |-> action, data |-> NoData]

\* C24: when the host's final tick (timeRemaining 0, isRunning true) and then
\* its timer-switch-mode have been received and both handlers have finished,
\* the persisted timer state has isBreak flipped, timeRemaining at the new
\* phase's duration and isRunning false.
C24_PhaseEndSettles ==
    (NumBusy = 0 /\ evs = <<FinalTick, Command("switch")>>) =>
       LET ts == TimerOf(db, "R1")
       IN /\ ts.isBreak = ~DefaultTimerState.isBreak
          /\ ts.timeRemaining = (IF ts.isBreak THEN ts.breakDuration
                                               ELSE ts.workDuration)
          /\ ~ts.isRunning

\* C25: the write of a timer-tick never turns the persisted isRunning from false
\* to true.
C25_TickNeverRestarts ==
    [][\A t \in TaskIds :
         (StepOf(t, "tick") /\ tasks[t].stage = "update") =>
            ~(~TimerOf(db, tasks[t].room).isRunning
              /\ TimerOf(db', tasks[t].room).isRunning)]_vars

\* C26: in every room's history no two messages have the same id, and the ids
\* (the clock readings they are the decimal form of, kept in timestamp) do not
\* decrease in append order.
C26_MessageIdsUnique ==
    \A r \in DOMAIN roomMessages :
       \A i, j \in DOMAIN roomMessages[r] :
          i < j => /\ roomMessages[r][i].id # roomMessages[r][j].id
                   /\ roomMessages[r][i].timestamp <= roomMessages[r][j].timestamp

\* C27: every message stored in a history and every message broadcast as
\* receive-message has non-empty content.
C27_NoBlankMessages ==
    /\ \A r \in DOMAIN roomMessages :
          \A i \in DOMAIN roomMessages[r] : roomMessages[r][i].content # <<>>
    /\ \A i \in SentAny(out, "receive-message") : out[i].payload.content # <<>>

\* C28: the write of a host timer command leaves in durable storage the very
\* state the command then broadcasts as timer-sync, in every field.
C28_SyncEqualsStored ==
    [][\A t \in TaskIds :
         (StepOf(t, "timer") /\ step'.op = "db-update") =>
            TimerOf(db', tasks[t].room) = tasks[t].newState]_vars

\* C29: the write of a host timer-start changes no field of the persisted timer
\* state when the timer is running, and when it is not running sets isRunning
\* to true and startedAt to the time of the command and changes nothing else.
C29_StartWhileRunningNoOp ==
    [][\A t \in TaskIds :
         (StepOf(t, "timer") /\ step'.op = "db-update" /\ tasks[t].action = "start") =>
            LET old == TimerOf(db, tasks[t].room)
                new == TimerOf(db', tasks[t].room)
            IN IF old.isRunning
               THEN new = old
               ELSE /\ new = [old EXCEPT !.isRunning = TRUE,
                                         !.startedAt = new.startedAt]
                    /\ new.startedAt \in 0..now]_vars

\* The number of switch-mode commands among the events recorded.
Switches == Cardinality({i \in DOMAIN evs : evs[i] = Command("switch")})

C31_TickMovesDownward ==
    [][\A t \in TaskIds :
         (StepOf(t, "tick") /\ step'.op = "db-update") =>
            LET old == TimerOf(db, tasks[t].room)
                new == TimerOf(db', tasks[t].room)
            IN /\ new.timeRemaining <= old.timeRemaining
               /\ new.timeRemaining >= 0]_vars

\* The registry and the history that room r has, or none.
TablesOf(users, messages, r) ==
    <<IF r \in DOMAIN users THEN users[r] ELSE <<>>, r \in DOMAIN users,
      IF r \in DOMAIN messages THEN messages[r] ELSE <<>>, r \in DOMAIN messages>>

\* C32: a send-message, leave-room or disconnect handled for a connection whose
\* current room is R1 leaves the presence registry and the chat history of every
\* other room as they were and sends nothing to a connection whose current room
\* is another room, a connection that joined R1 before joining the other room
\* included.
C32_OtherRoomsUntouched ==
    [][(step'.op \in {"send-message", "leave-room", "disconnect"}
          /\ currentRoom[step'.conn] # NoRoom) =>
         LET r1 == currentRoom[step'.conn]
         IN \A r2 \in RoomIds \ {r1} :
               /\ TablesOf(roomUsers', roomMessages', r2)
                     = TablesOf(roomUsers, roomMessages, r2)
               /\ \A i \in DOMAIN out' : currentRoom[out'[i].to] # r2]_vars

\* The positions of the presence registry of room r that hold connection c.
EntriesOf(users, r, c) ==
    IF r \in DOMAIN users
    THEN {i \in DOMAIN users[r] : users[r][i].socketId = c}
    ELSE {}

\* C33: a join-room that succeeds for a connection that already has an entry in
\* the room's presence registry leaves the registry with exactly one entry for
\* the connection, at the position it had, and with the size it had.
C33_RejoinKeepsEntry ==
    [][\A t \in TaskIds :
         (StepOf(t, "join") /\ step'.op = "join"
            /\ HasEntry(tasks[t].room, tasks[t].conn)) =>
            LET c == tasks[t].conn
                r == tasks[t].room
            IN /\ Cardinality(EntriesOf(roomUsers', r, c)) = 1
               /\ EntriesOf(roomUsers', r, c) = EntriesOf(roomUsers, r, c)
               /\ Len(roomUsers'[r]) = Len(roomUsers[r])
               /\ roomUsers'[r] = roomUsers[r]]_vars

\* C33 happens: connection 1, first of the two entries of R1, joined R1 again
\* and is still the first of two.
C33_Witness ==
    /\ step.op = "join" /\ step.conn = 1 /\ step.room = "R1"
    /\ "R1" \in DOMAIN roomUsers
    /\ Len(roomUsers["R1"]) = 2
    /\ roomUsers["R1"][1].socketId = 1
    /\ roomUsers["R1"][2].socketId = 2
    /\ out[1].ev = "room-state"
    /\ Len(out[1].payload.users) = 2

\* C34: the write of a host timer-pause sets the persisted isRunning to false
\* and leaves timeRemaining, isBreak, workDuration, breakDuration and every
\* other field as they were; on a timer that is already paused it changes no
\* field.
C34_PauseOnlyStops ==
    [][\A t \in TaskIds :
         (StepOf(t, "timer") /\ tasks[t].action = "pause"
            /\ step'.op = "db-update") =>
            LET old == TimerOf(db, tasks[t].room)
                new == TimerOf(db', tasks[t].room)
            IN /\ ~new.isRunning
               /\ new.timeRemaining = old.timeRemaining
               /\ new.isBreak = old.isBreak
               /\ new.workDuration = old.workDuration
               /\ new.breakDuration = old.breakDuration
               /\ new = [old EXCEPT !.isRunning = FALSE]
               /\ ~old.isRunning => new = old]_vars

\* C34 happens: the host's pause has been written over a timer that was started
\* and had ticked to 1499 after the pause read the state; it is stopped at 1499.
C34_Witness ==
    /\ step.op = "db-update" /\ step.task \in TaskIds
    /\ tasks[step.task].kind = "timer" /\ tasks[step.task].action = "pause"
    /\ tasks[step.task].newState.timeRemaining = 1500
    /\ ~TimerOf(db, "R1").isRunning
    /\ TimerOf(db, "R1").timeRemaining = 1499
    /\ TimerOf(db, "R1").startedAt # NullDate

\* C35: a video-ready (video-leave) of a joined connection sends every connected
\* participant of the sender's room, the sender among them, exactly one
\* video-user-ready (video-user-left) carrying the sender's connection id, and
\* sends nothing to any other connection.
C35_ReadyAndLeaveReachWholeRoom ==
    [][(step'.op \in {"video-ready", "video-leave"} /\ step'.room # NoRoom) =>
         LET c == step'.conn
             r == step'.room
             ev == IF step'.op = "video-ready" THEN "video-user-ready"
                   ELSE "video-user-left"
         IN /\ \A d \in Conns :
                  IF connStatus[d] = "open" /\ HasEntry(r, d)
                  THEN Cardinality(Sent(out', d, ev)) = 1
                  ELSE Sent(out', d, ev) = {}
            /\ \A i \in DOMAIN out' :
                  out'[i].ev = ev /\ out'[i].payload.socketId = c]_vars

\* C36: what a connection is given of a room's chat is the room's sequence of
\* appended messages: the room-state of its join carries the history retained
\* at that moment, every message appended to the room afterwards is given exactly
\* once to every connected connection whose current room it is, and a connection
\* is given no receive-message other than those of its current room.
C36_StreamIsRoomSequence ==
    [][/\ \A t \in TaskIds :
            (StepOf(t, "join") /\ step'.op = "join") =>
               \A i \in Sent(out', tasks[t].conn, "room-state") :
                  out'[i].payload.messages = roomMessages'[tasks[t].room]
       /\ (step'.op = "send-message" /\ nAppended' # nAppended) =>
            \A d \in Conns :
               IF connStatus[d] = "open" /\ currentRoom[d] = step'.room
               THEN Cardinality(Sent(out', d, "receive-message")) = 1
               ELSE Sent(out', d, "receive-message") = {}]_vars

\* C37: when the page of a participant that is not the host handles the last
\* timer-sync that was sent to it and is still waiting, the isRunning,
\* timeRemaining and isBreak it displays afterwards are those of that payload,
\* also when the timer-sync before it was handled less than 500 ms earlier.
C37_DisplayFollowsLastSync ==
    [][(step'.op \in {"sync-applied", "sync-skipped"}
          /\ ~IsHostPage(step'.conn) /\ Len(net[step'.conn]) = 1) =>
         LET data == Head(net[step'.conn]).payload
             shown == pomodoro'[step'.conn].timerState
         IN /\ shown.isRunning = data.isRunning
            /\ shown.timeRemaining = data.timeRemaining
            /\ shown.isBreak = data.isBreak]_vars

\* The page c has sent peer p an offer, or has accepted an offer of p.
InHandshakeWith(c, p) ==
    p \in videoCall[c].peers \/ Creation("answer", p) \in videoCall[c].pending

\* C38: a video-answer or video-ice-candidate that a page handles, coming from a
\* peer it has sent an offer to or has accepted an offer from, is applied to
\* that peer's connection, wherever the page's own creation of the offer or the
\* answer and the update of its peer map stand.
C38_HandshakeMessagesApplied ==
    [][(step'.op \in {"answer-applied", "answer-dropped",
                      "candidate-applied", "candidate-dropped"}
          /\ InHandshakeWith(step'.conn, Head(net[step'.conn]).payload.fromSocketId))
         => step'.op \in {"answer-applied", "candidate-applied"}]_vars

\* C39: in every reachable state, a room whose persisted timer is running has a
\* connected connection of its host in its presence registry.
C39_RunningTimerHasHost ==
    \A r \in DOMAIN db :
        TimerOf(db, r).isRunning =>
           \E c \in Conns :
              /\ connStatus[c] = "open"
              /\ userId[c] = db[r].host
              /\ HasEntry(r, c)

\* C40: in every reachable state roomMessages has an entry for exactly the
\* rooms roomUsers has an entry for, and no room's presence map is empty.
C40_TablesAgree ==
    /\ DOMAIN roomMessages = DOMAIN roomUsers
    /\ \A r \in DOMAIN roomUsers : Len(roomUsers[r]) > 0

\* C40 happens: the last connection of R1 has left, both of R1's entries are
\* gone, and R2 still has both of its own.
C40_Witness ==
    /\ IsLeaveStep(step) /\ step.room = "R1"
    /\ DOMAIN roomUsers = {"R2"}
    /\ DOMAIN roomMessages = {"R2"}
    /\ Len(roomUsers["R2"]) = 1

==============================================================================
